---- MODULE Spec2Model ----
(***************************************************************************)
(* jenkins_agent.py: the start and shutdown flows of a disposable Jenkins  *)
(* agent, as a state machine.  One step is one HTTP request (or one shell  *)
(* command) together with the handling of its response; the coordinator's  *)
(* node registry is the only state shared between invocations.             *)
(***************************************************************************)
EXTENDS Integers, Sequences, FiniteSets, TLC

VARIABLES
    command,      \* per invocation: the subcommand it was run with
    pc,           \* per invocation: the next statement of the handler
    data,         \* per invocation: instance_data, as load_instance_metadata returned it
    trace,        \* per invocation: the requests issued so far, in order
    responses,    \* per invocation: the response status of the metadata fetches and of
                  \* the create, configure, secret and delete requests (0: not sent)
    createdOver,  \* per invocation: the record's state when its create request was sent
    err,          \* per invocation: the exception that ended it, if any
    registered,   \* per invocation: what _is_already_registered returned last
                  \* ("none" until it has returned)
    listSeen,     \* per invocation: the computer list the last existence check scanned
    jnlp_secret,  \* per invocation: the secret _get_jnlp_secret returned
    jnlp_doc,     \* per invocation: the document the secret endpoint answered with
    later,        \* per invocation: it began after another one had failed between
                  \* create and configure
    registry,     \* the coordinator: node name -> state of its record
    jarPresent,   \* the machine: /tmp/agent.jar exists
    qResponse,    \* existence check on its own: the node-list response
    qName,        \* existence check on its own: the queried name
    qResult       \* existence check on its own: "pending", or the outcome

vars == <<command, pc, data, trace, responses, createdOver, err, registered,
          listSeen, jnlp_secret, jnlp_doc, later, registry, jarPresent,
          qResponse, qName, qResult>>

flowVars == <<command, pc, data, trace, responses, createdOver, err, registered,
              listSeen, jnlp_secret, jnlp_doc, later, registry, jarPresent>>

queryVars == <<qResponse, qName, qResult>>

-----------------------------------------------------------------------------
(* Bounds and program constants *)

\* the longest computer list the stand-alone existence check is given
MaxComputers == 2

\* requests.codes.ok and requests.codes.found
OK == 200
FOUND == 302

\* one status of each class the code tells apart: ok, found, client/server error
Statuses == {OK, FOUND, 404}

\* the invocations of the program that run against one coordinator
Invocations == {"i1", "i2"}

\* Python's None, and what an f-string or urlencode makes of a value
None == "<None>"
Str(x) == IF x = None THEN "None" ELSE x

\* what the metadata service holds for this instance
MetaItems == <<"name", "attributes/JENKINS_URL", "attributes/JNLP_CREDENTIALS",
               "attributes/JENKINS_AGENT_LABEL">>
MetaContent == <<"agent-7", "http://ci.example.com/", "u:p", "linux">>

\* the names a record can be created under: the instance's name, and the
\* text of None
NodeKeys == {"agent-7", "None"}
RecStates == {"absent", "created", "configured"}

\* a node of another machine, registered throughout
OtherComputers == <<[displayName |-> "Agent-7"]>>

NoError == [type |-> "none", status |-> 0]
NoData == [name |-> None, jenkins_url |-> None, jnlp_credentials |-> None,
           jenkins_label |-> None]

-----------------------------------------------------------------------------
(* requests.Response.raise_for_status, as the code relies on it: it raises *)
(* for 4xx and 5xx only.                                                   *)
raise_for_status(status) == status >= 400 /\ status < 600

HTTPError(status) == [type |-> "HTTPError", status |-> status]
Exception(type) == [type |-> type, status |-> 0]

\* the requests whose response status is kept
Kept == {"name", "attributes/JENKINS_URL", "attributes/JNLP_CREDENTIALS",
         "attributes/JENKINS_AGENT_LABEL", "create", "configure", "secret", "delete"}

\* the requests that go to the coordinator
CoordinatorRequests == {"agent.jar", "list", "create", "configure", "secret", "delete"}

Sent(p, req) == \E i \in DOMAIN trace[p] : trace[p][i] = req
CountOf(p, req) == Cardinality({i \in DOMAIN trace[p] : trace[p][i] = req})
Last(seq) == seq[Len(seq)]

-----------------------------------------------------------------------------
(* Metadata Loader *)

\* load_instance_metadata_item: the content on 200; otherwise raise_for_status,
\* and when that does not raise the function falls off its end and returns None
load_instance_metadata_item(status, content) ==
    IF status = OK
    THEN [raised |-> FALSE, value |-> content]
    ELSE IF raise_for_status(status)
         THEN [raised |-> TRUE, value |-> None]
         ELSE [raised |-> FALSE, value |-> None]

\* str.strip('/') on the coordinator URLs in scope
strip(url) ==
    CASE url = "http://ci.example.com/" -> "http://ci.example.com"
      [] url = "http://ci.example.com//" -> "http://ci.example.com"
      [] OTHER -> url

\* the index of the first fetch that raises, 0 when none does
FirstRaised(st) ==
    LET bad == {i \in 1..4 : load_instance_metadata_item(st[i], MetaContent[i]).raised}
    IN  IF bad = {} THEN 0 ELSE CHOOSE i \in bad : \A j \in bad : i <= j

\* load_instance_metadata under the four response statuses st: the fetches
\* made, the exception raised (if any) and the structure returned (if any)
load_instance_metadata(st) ==
    LET k == FirstRaised(st)
        n == IF k = 0 THEN 4 ELSE k
        fetched == [i \in 1..n |-> MetaItems[i]]
        item(i) == load_instance_metadata_item(st[i], MetaContent[i]).value
    IN  IF k # 0
        THEN [requests |-> fetched, err |-> HTTPError(st[k]), data |-> NoData]
        ELSE IF item(2) = None
             THEN [requests |-> fetched, err |-> Exception("AttributeError"),
                   data |-> NoData]
             ELSE [requests |-> fetched, err |-> NoError,
                   data |-> [jenkins_url |-> strip(item(2)),
                             name |-> item(1),
                             jnlp_credentials |-> item(3),
                             jenkins_label |-> item(4)]]

\* get_credentialed_session: credentials.split(':') on None is an AttributeError
get_credentialed_session(credentials) ==
    IF credentials = None THEN Exception("AttributeError") ELSE NoError

-----------------------------------------------------------------------------
(* Registration Client: the existence check *)

\* dict.get(key, default)
Get(d, key, default) == IF key \in DOMAIN d THEN d[key] ELSE default

\* mutant of ScanComputers: the loop returns after its first entry
ScanComputers_first_only(computers, name, i) ==
    i <= Len(computers) /\ Get(computers[i], "displayName", None) = name

\* the loop over computers, from entry i on: True at the first entry whose
\* displayName equals name
RECURSIVE ScanComputers(_, _, _)
ScanComputers(computers, name, i) ==
    IF i > Len(computers)
    THEN FALSE
    ELSE IF Get(computers[i], "displayName", None) = name
         THEN TRUE
         ELSE ScanComputers(computers, name, i + 1)

\* _is_already_registered on a response [status, json_ok, json]: the
\* exception raised (if any), the value returned and the list scanned
is_already_registered(response, name) ==
    IF response.status # OK /\ raise_for_status(response.status)
    THEN [err |-> HTTPError(response.status), value |-> FALSE, computers |-> <<>>]
    ELSE IF ~response.json_ok
         THEN [err |-> Exception("JSONDecodeError"), value |-> FALSE,
               computers |-> <<>>]
         ELSE LET computers == Get(response.json, "computer", <<>>)
              IN  [err |-> NoError,
                   value |-> ScanComputers(computers, name, 1),
                   computers |-> computers]

\* the coordinator's node list for a registry
Entry(reg, k) == IF reg[k] # "absent" THEN <<[displayName |-> k]>> ELSE <<>>
NodeList(reg) == OtherComputers \o Entry(reg, "agent-7") \o Entry(reg, "None")

\* the bodies the node-list endpoint can answer with: the list, a JSON
\* object with no computer list, and something that is not JSON
ListBodies(reg) ==
    { [json_ok |-> TRUE, json |-> [computer |-> NodeList(reg)]],
      [json_ok |-> TRUE, json |-> [busyExecutors |-> <<>>]],
      [json_ok |-> FALSE, json |-> [busyExecutors |-> <<>>]] }

-----------------------------------------------------------------------------
(* Secret Fetcher *)

Element(tag, text, children) == [tag |-> tag, text |-> text, children |-> children]

\* Element.find(tag): the first child with that tag, as <<child>>; <<>> for None
RECURSIVE FindFrom(_, _, _)
FindFrom(children, tag, i) ==
    IF i > Len(children)
    THEN <<>>
    ELSE IF children[i].tag = tag
         THEN <<children[i]>>
         ELSE FindFrom(children, tag, i + 1)
\* mutant of find: a missing child comes back as an empty element
find_or_empty(element, tag) ==
    IF FindFrom(element.children, tag, 1) = <<>>
    THEN <<Element(tag, None, <<>>)>>
    ELSE FindFrom(element.children, tag, 1)

find(element, tag) == FindFrom(element.children, tag, 1)

\* the documents the secret endpoint can answer with
JnlpDocs ==
    { \* the secret and the node name as the two arguments
      [wellformed |-> TRUE,
       root |-> Element("jnlp", None, <<
                  Element("information", None, <<>>),
                  Element("application-desc", None, <<
                      Element("argument", "s3cret", <<>>),
                      Element("argument", "agent-7", <<>>) >>) >>)],
      \* application-desc without an argument child
      [wellformed |-> TRUE,
       root |-> Element("jnlp", None, <<
                  Element("application-desc", None, <<
                      Element("main-class", "hudson.remoting.jnlp.Main", <<>>) >>) >>)],
      \* no application-desc
      [wellformed |-> TRUE,
       root |-> Element("jnlp", None, <<Element("information", None, <<>>)>>)],
      \* not XML
      [wellformed |-> FALSE, root |-> Element("", None, <<>>)] }

\* before the secret endpoint has answered
NoDoc == [wellformed |-> FALSE, root |-> Element("", None, <<>>)]

\* _get_jnlp_secret on a response [status, doc]: the exception raised (if
\* any) and the secret returned
get_jnlp_secret(status, doc) ==
    IF status # OK /\ raise_for_status(status)
    THEN [err |-> HTTPError(status), value |-> None]
    ELSE IF ~doc.wellformed
         THEN [err |-> Exception("ParseError"), value |-> None]
         ELSE LET app == find(doc.root, "application-desc")
              IN  IF app = <<>>
                  THEN [err |-> Exception("AttributeError"), value |-> None]
                  ELSE LET arg == find(app[1], "argument")
                       IN  IF arg = <<>>
                           THEN [err |-> Exception("AttributeError"), value |-> None]
                           ELSE [err |-> NoError, value |-> arg[1].text]

-----------------------------------------------------------------------------
(* The coordinator, as the requests of this program see it: which statuses *)
(* it can answer with, and what a request does to the node's record.       *)

\* doCreateItem makes the record, and answers 302, only for a name it does
\* not hold
CreateStatuses(rec) == IF rec = "absent" THEN Statuses ELSE Statuses \ {FOUND}
AfterCreate(rec, st) == IF st = FOUND THEN "created" ELSE rec

\* config.xml updates, and answers 200, only for a record it holds
ConfigureStatuses(rec) == IF rec = "absent" THEN Statuses \ {OK} ELSE Statuses
AfterConfigure(rec, st) == IF st = OK THEN "configured" ELSE rec

\* doDelete removes, and answers 302, only for a record it holds
DeleteStatuses(rec) == IF rec = "absent" THEN Statuses \ {FOUND} ELSE Statuses
AfterDelete(rec, st) == IF st = FOUND THEN "absent" ELSE rec

-----------------------------------------------------------------------------
(* The branches of the handlers *)

\* mutants of after_existence_check: registration whatever the check
\* returned; an existing node configured again
after_existence_check_always(exists) == "create"
after_existence_check_reconfigure(exists) == IF exists THEN "configure" ELSE "create"

\* handle_start: registration only when the existence check returned False
after_existence_check(exists) == IF exists THEN "secret" ELSE "create"

\* _do_registration, the create response: anything but 302 goes to
\* raise_for_status
create_outcome(st) ==
    IF st # FOUND /\ raise_for_status(st) THEN HTTPError(st) ELSE NoError

\* _do_registration, the configure response: anything but 200 goes to
\* raise_for_status
configure_outcome(st) ==
    IF st # OK /\ raise_for_status(st) THEN HTTPError(st) ELSE NoError

\* mutant of after_delete: the re-check whatever the delete response was
after_delete_always_recheck(st) == "recheck"

\* _deregister_with_jenkins_master, the delete response: 302 returns at once
after_delete(st) == IF st = FOUND THEN "returned" ELSE "recheck"

\* _deregister_with_jenkins_master, after the re-check: absent returns;
\* present goes to delete_r.raise_for_status()
recheck_outcome(exists, delete_status) ==
    IF ~exists
    THEN NoError
    ELSE IF raise_for_status(delete_status) THEN HTTPError(delete_status) ELSE NoError

\* an invocation failed at the configure request after its create got 302
PartialFailure(q) ==
    /\ pc[q] = "raised"
    /\ trace[q] # <<>>
    /\ Last(trace[q]) = "configure"
    /\ responses[q]["create"] = FOUND

\* the name the coordinator sees in the URLs and the create parameters
Key(p) == Str(data[p].name)

\* a returned bool, as kept in registered
Bool(b) == IF b THEN "True" ELSE "False"

Raise(p, e) ==
    /\ pc' = [pc EXCEPT ![p] = "raised"]
    /\ err' = [err EXCEPT ![p] = e]

Goto(p, label) ==
    /\ pc' = [pc EXCEPT ![p] = label]
    /\ UNCHANGED err

Log(p, req) == trace' = [trace EXCEPT ![p] = Append(@, req)]

Keep(p, req, st) == responses' = [responses EXCEPT ![p][req] = st]

\* the statuses of the metadata fetches made
KeepMeta(p, st, fetched) ==
    responses' = [responses EXCEPT ![p] =
                  [r \in Kept |-> IF \E i \in DOMAIN fetched : fetched[i] = r
                                  THEN st[CHOOSE i \in DOMAIN fetched : fetched[i] = r]
                                  ELSE @[r]]]

-----------------------------------------------------------------------------
(* Steps *)

\* main -> handle_start, to the end of the artifact fetch: the metadata
\* load, then wget of the agent jar unless the file exists
handle_start(p) ==
    /\ pc[p] = "main"
    /\ command' = [command EXCEPT ![p] = "start"]
    /\ later' = [later EXCEPT ![p] = \E q \in Invocations \ {p} : PartialFailure(q)]
    /\ \E st \in [1..4 -> Statuses] :
           LET r == load_instance_metadata(st)
           IN  /\ KeepMeta(p, st, r.requests)
               /\ data' = [data EXCEPT ![p] = r.data]
               /\ IF r.err # NoError
                  THEN /\ Raise(p, r.err)
                       /\ trace' = [trace EXCEPT ![p] = r.requests]
                       /\ UNCHANGED jarPresent
                  ELSE /\ Goto(p, "check")
                       /\ trace' = [trace EXCEPT ![p] =
                              r.requests \o (IF jarPresent THEN <<>> ELSE <<"agent.jar">>)]
                       /\ jarPresent' = TRUE
    /\ UNCHANGED <<createdOver, registered, listSeen, jnlp_secret, jnlp_doc,
                   registry, queryVars>>

\* main -> handle_shutdown: the metadata load
handle_shutdown(p) ==
    /\ pc[p] = "main"
    /\ command' = [command EXCEPT ![p] = "shutdown"]
    /\ \E st \in [1..4 -> Statuses] :
           LET r == load_instance_metadata(st)
           IN  /\ KeepMeta(p, st, r.requests)
               /\ data' = [data EXCEPT ![p] = r.data]
               /\ trace' = [trace EXCEPT ![p] = r.requests]
               /\ IF r.err # NoError THEN Raise(p, r.err) ELSE Goto(p, "deregister")
    /\ UNCHANGED <<createdOver, registered, listSeen, jnlp_secret, jnlp_doc, later,
                   registry, jarPresent, queryVars>>

\* handle_start: the session, then _is_already_registered
CheckRegistered(p) ==
    /\ pc[p] = "check"
    /\ LET s == get_credentialed_session(data[p].jnlp_credentials)
       IN  IF s # NoError
           THEN /\ Raise(p, s)
                /\ UNCHANGED <<trace, registered, listSeen>>
           ELSE \E st \in Statuses, body \in ListBodies(registry) :
                    LET r == is_already_registered(
                                 [status |-> st, json_ok |-> body.json_ok,
                                  json |-> body.json], data[p].name)
                    IN  /\ Log(p, "list")
                        /\ IF r.err # NoError
                           THEN /\ Raise(p, r.err)
                                /\ UNCHANGED <<registered, listSeen>>
                           ELSE /\ Goto(p, after_existence_check(r.value))
                                /\ registered' = [registered EXCEPT ![p] = Bool(r.value)]
                                /\ listSeen' = [listSeen EXCEPT ![p] = r.computers]
    /\ UNCHANGED <<command, data, responses, createdOver, jnlp_secret, jnlp_doc,
                   later, registry, jarPresent, queryVars>>

\* _do_registration: the create request
CreateNode(p) ==
    /\ pc[p] = "create"
    /\ \E st \in CreateStatuses(registry[Key(p)]) :
           /\ Log(p, "create")
           /\ Keep(p, "create", st)
           /\ createdOver' = [createdOver EXCEPT ![p] = registry[Key(p)]]
           /\ registry' = [registry EXCEPT ![Key(p)] = AfterCreate(@, st)]
           /\ IF create_outcome(st) # NoError
              THEN Raise(p, create_outcome(st))
              ELSE Goto(p, "configure")
    /\ UNCHANGED <<command, data, registered, listSeen, jnlp_secret, jnlp_doc,
                   later, jarPresent, queryVars>>

\* _do_registration: the configure request
ConfigureNode(p) ==
    /\ pc[p] = "configure"
    /\ \E st \in ConfigureStatuses(registry[Key(p)]) :
           /\ Log(p, "configure")
           /\ Keep(p, "configure", st)
           /\ registry' = [registry EXCEPT ![Key(p)] = AfterConfigure(@, st)]
           /\ IF configure_outcome(st) # NoError
              THEN Raise(p, configure_outcome(st))
              ELSE Goto(p, "secret")
    /\ UNCHANGED <<command, data, createdOver, registered, listSeen, jnlp_secret,
                   jnlp_doc, later, jarPresent, queryVars>>

\* handle_start: jnlp_secret = _get_jnlp_secret(...)
GetJnlpSecret(p) ==
    /\ pc[p] = "secret"
    /\ \E st \in Statuses, doc \in JnlpDocs :
           LET r == get_jnlp_secret(st, doc)
           IN  /\ Log(p, "secret")
               /\ Keep(p, "secret", st)
               /\ jnlp_doc' = [jnlp_doc EXCEPT ![p] = doc]
               /\ IF r.err # NoError
                  THEN /\ Raise(p, r.err)
                       /\ UNCHANGED jnlp_secret
                  ELSE /\ Goto(p, "launch")
                       /\ jnlp_secret' = [jnlp_secret EXCEPT ![p] = r.value]
    /\ UNCHANGED <<command, data, createdOver, registered, listSeen, later,
                   registry, jarPresent, queryVars>>

\* handle_start: os.system(java -jar ... -secret ...)
LaunchAgent(p) ==
    /\ pc[p] = "launch"
    /\ Log(p, "launch")
    /\ Goto(p, "returned")
    /\ UNCHANGED <<command, data, responses, createdOver, registered, listSeen,
                   jnlp_secret, jnlp_doc, later, registry, jarPresent, queryVars>>

\* _deregister_with_jenkins_master: the session, then the delete request
Deregister(p) ==
    /\ pc[p] = "deregister"
    /\ LET s == get_credentialed_session(data[p].jnlp_credentials)
       IN  IF s # NoError
           THEN /\ Raise(p, s)
                /\ UNCHANGED <<trace, responses, registry>>
           ELSE \E st \in DeleteStatuses(registry[Key(p)]) :
                    /\ Log(p, "delete")
                    /\ Keep(p, "delete", st)
                    /\ registry' = [registry EXCEPT ![Key(p)] = AfterDelete(@, st)]
                    /\ Goto(p, after_delete(st))
    /\ UNCHANGED <<command, data, createdOver, registered, listSeen, jnlp_secret,
                   jnlp_doc, later, jarPresent, queryVars>>

\* _deregister_with_jenkins_master: the existence re-check and what follows it
Recheck(p) ==
    /\ pc[p] = "recheck"
    /\ \E st \in Statuses, body \in ListBodies(registry) :
           LET r == is_already_registered(
                        [status |-> st, json_ok |-> body.json_ok,
                         json |-> body.json], data[p].name)
               e == recheck_outcome(r.value, responses[p]["delete"])
           IN  /\ Log(p, "list")
               /\ IF r.err # NoError
                  THEN /\ Raise(p, r.err)
                       /\ UNCHANGED <<registered, listSeen>>
                  ELSE /\ registered' = [registered EXCEPT ![p] = Bool(r.value)]
                       /\ listSeen' = [listSeen EXCEPT ![p] = r.computers]
                       /\ IF e # NoError THEN Raise(p, e) ELSE Goto(p, "returned")
    /\ UNCHANGED <<command, data, responses, createdOver, jnlp_secret, jnlp_doc,
                   later, registry, jarPresent, queryVars>>

-----------------------------------------------------------------------------
(* The existence check on its own, over every response in bounds *)

\* the entries a computer list is made of; the last has no displayName
Computers ==
    { [displayName |-> "agent-7"], [displayName |-> "Agent-7"],
      [displayName |-> "agent-70"], [offline |-> "agent-7"] }

ComputerLists == UNION { [1..n -> Computers] : n \in 0..MaxComputers }

QueryNames == {"agent-7", "Agent-7", "AGENT-7"}

QueryResponses ==
    { [status |-> OK, json_ok |-> TRUE, json |-> [computer |-> l]] : l \in ComputerLists }
    \cup { [status |-> OK, json_ok |-> TRUE, json |-> [busyExecutors |-> <<>>]] }

Query ==
    /\ qResult = "pending"
    /\ LET r == is_already_registered(qResponse, qName)
       IN  qResult' = IF r.err # NoError THEN r.err.type
                      ELSE IF r.value THEN "True" ELSE "False"
    /\ UNCHANGED <<qResponse, qName, flowVars>>

-----------------------------------------------------------------------------
(* Specifications *)

InitFlow ==
    /\ command = [p \in Invocations |-> "none"]
    /\ pc = [p \in Invocations |-> "main"]
    /\ data = [p \in Invocations |-> NoData]
    /\ trace = [p \in Invocations |-> <<>>]
    /\ responses = [p \in Invocations |-> [r \in Kept |-> 0]]
    /\ createdOver = [p \in Invocations |-> "n/a"]
    /\ err = [p \in Invocations |-> NoError]
    /\ registered = [p \in Invocations |-> "none"]
    /\ listSeen = [p \in Invocations |-> <<>>]
    /\ jnlp_secret = [p \in Invocations |-> None]
    /\ jnlp_doc = [p \in Invocations |-> NoDoc]
    /\ later = [p \in Invocations |-> FALSE]
    /\ registry = [k \in NodeKeys |-> "absent"]
    /\ jarPresent = FALSE

Init ==
    /\ InitFlow
    /\ qResponse = [status |-> OK, json_ok |-> TRUE, json |-> [busyExecutors |-> <<>>]]
    /\ qName = "agent-7"
    /\ qResult = "pending"

Step(p) ==
    \/ handle_start(p)
    \/ handle_shutdown(p)
    \/ CheckRegistered(p)
    \/ CreateNode(p)
    \/ ConfigureNode(p)
    \/ GetJnlpSecret(p)
    \/ LaunchAgent(p)
    \/ Deregister(p)
    \/ Recheck(p)

Next == \E p \in Invocations : Step(p)

Spec == Init /\ [][Next]_vars

\* the existence check applied to each response and name in bounds
InitQuery ==
    /\ InitFlow
    /\ qResponse \in QueryResponses
    /\ qName \in QueryNames
    /\ qResult = "pending"

NextQuery == Query

SpecQuery == InitQuery /\ [][NextQuery]_vars

-----------------------------------------------------------------------------
(* Properties *)

Starts == {p \in Invocations : command[p] = "start"}
Shutdowns == {p \in Invocations : command[p] = "shutdown"}

\* the requests an invocation issued after its first req
After(p, req) ==
    LET i == CHOOSE i \in DOMAIN trace[p] : trace[p][i] = req
    IN  SubSeq(trace[p], i + 1, Len(trace[p]))

IsPrefix(s, t) == Len(s) <= Len(t) /\ SubSeq(t, 1, Len(s)) = s

\* the position of the first req in the trace
Index(p, req) == CHOOSE i \in DOMAIN trace[p] : trace[p][i] = req

\* C1: in the start flow create and configure are sent only after the
\* existence check returned False; after it returned True neither is sent
\* and the next request is the secret fetch.
C1_RegistrationOnlyWhenAbsent ==
    \A p \in Starts :
        /\ (Sent(p, "create") \/ Sent(p, "configure")) =>
               /\ registered[p] = "False"
               /\ Index(p, "list") < Index(p, IF Sent(p, "create") THEN "create"
                                                ELSE "configure")
        /\ registered[p] = "True" =>
               /\ ~Sent(p, "create")
               /\ ~Sent(p, "configure")
               /\ IsPrefix(After(p, "list"), <<"secret", "launch">>)
               /\ pc[p] = "secret" <=> After(p, "list") = <<>>

C1_Witness ==
    \E p \in Starts : registered[p] = "True" /\ Sent(p, "secret")

\* C2: after a delete response other than 302 there is exactly one existence
\* re-check; when it finds the node absent the call returns, and when it
\* finds the node present the call raises the delete request's error.
C2_RecheckDecides ==
    \A p \in Shutdowns :
        ( /\ responses[p]["delete"] \notin {0, FOUND}
          /\ pc[p] \in {"returned", "raised"} ) =>
            /\ CountOf(p, "list") = 1
            /\ registered[p] = "False" => pc[p] = "returned"
            /\ registered[p] = "True" =>
                   /\ pc[p] = "raised"
                   /\ err[p] = HTTPError(responses[p]["delete"])

\* C3: a create response other than 302 is fatal: no configure, no secret
\* fetch and no launch follow it.
C3_CreateFailureIsFatal ==
    \A p \in Starts :
        responses[p]["create"] \notin {0, FOUND} =>
            /\ pc[p] = "raised"
            /\ ~Sent(p, "configure")
            /\ ~Sent(p, "secret")
            /\ ~Sent(p, "launch")

\* C4: when any of the four metadata fetches answers with a status other
\* than 200, the load fails: no structure is returned and no request goes to
\* the coordinator.
C4_MetadataFailureIsFatal ==
    \A p \in Invocations :
        (\E i \in DOMAIN MetaItems : responses[p][MetaItems[i]] \notin {0, OK}) =>
            /\ pc[p] = "raised"
            /\ data[p] = NoData
            /\ \A i \in DOMAIN trace[p] : trace[p][i] \notin CoordinatorRequests

\* C5: a launch is preceded by a secret fetch that returned 200, which is
\* preceded by the existence check; a shutdown issues only the metadata
\* fetches and the deregistration calls.
C5_StartSequence ==
    /\ \A p \in Starts :
           Sent(p, "launch") =>
               /\ Sent(p, "secret") /\ Sent(p, "list")
               /\ Index(p, "list") < Index(p, "secret")
               /\ Index(p, "secret") < Index(p, "launch")
               /\ responses[p]["secret"] = OK
    /\ \A p \in Shutdowns :
           \A i \in DOMAIN trace[p] :
               trace[p][i] \in {MetaItems[j] : j \in DOMAIN MetaItems}
                                   \cup {"delete", "list"}

\* C6: when the delete request answers 302, deregistration returns normally
\* and sends nothing more: the delete is the invocation's last request and
\* no existence re-check is made.
C6_DeleteFoundReturns ==
    \A p \in Shutdowns :
        responses[p]["delete"] = FOUND =>
            /\ pc[p] = "returned"
            /\ err[p] = NoError
            /\ Last(trace[p]) = "delete"
            /\ ~Sent(p, "list")

C6_Witness ==
    \E p \in Shutdowns : responses[p]["delete"] = FOUND /\ pc[p] = "returned"

\* the computer list of the stand-alone query, empty when the response has none
QueryList ==
    IF "computer" \in DOMAIN qResponse.json THEN qResponse.json.computer ELSE <<>>

\* C7: on a 200 node list the existence check returns True exactly when some
\* entry's display name equals the queried name, case and all; it returns
\* False for an empty list and for a response with no computer list.
C7_ExactMatch ==
    qResult # "pending" =>
        /\ qResult \in {"True", "False"}
        /\ qResult = "True" <=>
               \E i \in DOMAIN QueryList :
                   /\ "displayName" \in DOMAIN QueryList[i]
                   /\ QueryList[i].displayName = qName
        /\ QueryList = <<>> => qResult = "False"

C7_Witness ==
    /\ qResult = "True"
    /\ qName = "agent-7"
    /\ Len(QueryList) = 2
    /\ QueryList[1] = [displayName |-> "Agent-7"]
    /\ QueryList[2] = [displayName |-> "agent-7"]

\* a well-formed document whose root has no application-desc child, or whose
\* first application-desc has no argument child
MissingElements(doc) ==
    /\ doc.wellformed
    /\ LET kids == doc.root.children
           apps == {i \in DOMAIN kids : kids[i].tag = "application-desc"}
       IN  \/ apps = {}
           \/ LET first == CHOOSE i \in apps : \A j \in apps : i <= j
              IN  \A k \in DOMAIN kids[first].children :
                      kids[first].children[k].tag # "argument"

\* C8: when a 200 secret document lacks application-desc or its argument
\* child, the extraction raises a structural error, returns no secret, and
\* the agent is not launched.
C8_MissingElementsRaise ==
    \A p \in Starts :
        (responses[p]["secret"] = OK /\ MissingElements(jnlp_doc[p])) =>
            /\ pc[p] = "raised"
            /\ err[p] = Exception("AttributeError")
            /\ jnlp_secret[p] = None
            /\ ~Sent(p, "launch")

C8_Witness ==
    \E p \in Starts :
        /\ responses[p]["secret"] = OK
        /\ MissingElements(jnlp_doc[p])
        /\ find(jnlp_doc[p].root, "application-desc") # <<>>

\* C9 as claimed: whenever a create request is sent, the coordinator holds no
\* record with that name at that moment.
C9_CreateOnlyOverAbsent ==
    \A p \in Invocations : createdOver[p] \in {"n/a", "absent"}

\* C9 as amended: whenever a create request is sent, the node list its
\* sender's existence check scanned held no entry with that name (the record
\* may have been made since).
C9_CreateOnlyAfterUnlisted ==
    \A p \in Invocations :
        Sent(p, "create") =>
            /\ registered[p] = "False"
            /\ \A i \in DOMAIN listSeen[p] :
                   Get(listSeen[p][i], "displayName", None) # data[p].name

C9_Witness ==
    \E p \in Invocations :
        /\ Sent(p, "create")
        /\ createdOver[p] = "created"
        /\ listSeen[p] = OtherComputers

\* C10: once a start invocation has failed at configure after its create got
\* 302, a later start invocation for the same name whose existence check
\* finds the name sends neither create nor configure and goes on to the
\* secret fetch and the launch; the record stays without the update.
C10_RestartSkipsRegistration ==
    \A p, q \in Starts :
        ( /\ p # q
          /\ PartialFailure(p)
          /\ later[q]
          /\ data[q].name = data[p].name
          /\ registered[q] = "True" ) =>
            /\ ~Sent(q, "create")
            /\ ~Sent(q, "configure")
            /\ IsPrefix(After(q, "list"), <<"secret", "launch">>)
            /\ registry[Key(q)] = "created"

C10_Witness ==
    \E p, q \in Starts :
        /\ p # q
        /\ PartialFailure(p)
        /\ later[q]
        /\ data[q].name = data[p].name
        /\ registered[q] = "True"
        /\ Sent(q, "launch")
        /\ registry[Key(q)] = "created"

====
